---- MODULE Spec2Model ----
(***************************************************************************)
(* Model of src/app.js: the Tarot front end (session handshake, SSE read   *)
(* loop, output routing, stop).  Text is modelled as sequences of          *)
(* one-character strings; the response body as a sequence of byte chunks.  *)
(***************************************************************************)
EXTENDS Integers, Sequences, FiniteSets, TLC

\* ------------------------------------------------------------------------
\* Bounds of the model
\* ------------------------------------------------------------------------
\* number of startStream invocations
MaxStarts == 2
\* number of stopStream invocations
MaxStops == 1
\* number of segments of a well-framed body (SpecParse)
MaxSegs == 2

\* the startStream activations that can be suspended at the same time: an
\* earlier stream and a newer one.  A finished activation's slot is taken
\* by the next call.
Starts == {1, 2}

\* ------------------------------------------------------------------------
\* Characters and bytes
\* ------------------------------------------------------------------------
NL == "\n"
BSL == "\\"
\* the two bytes of one two-byte UTF-8 character, and what they decode to
LeadByte == "xC3"
ContByte == "xA9"
EAcute == "U+00E9"
Replacement == "U+FFFD"
WhiteSpace == {" ", "\t", "\r", NL}

S_event == <<"e", "v", "e", "n", "t", ":">>
S_data == <<"d", "a", "t", "a", ":">>
S_message == <<"m", "e", "s", "s", "a", "g", "e">>
S_meta == <<"m", "e", "t", "a">>
S_reason == <<"r", "e", "a", "s", "o", "n">>
S_answer == <<"a", "n", "s", "w", "e", "r">>
S_error == <<"e", "r", "r", "o", "r">>
S_done == <<"d", "o", "n", "e">>
Sep2 == <<NL, NL>>
EscNL == <<BSL, "n">>

\* ------------------------------------------------------------------------
\* String functions of the JavaScript runtime, as the code uses them
\* ------------------------------------------------------------------------
\* s.startsWith(p)
StartsWith(s, p) ==
  /\ Len(s) >= Len(p)
  /\ SubSeq(s, 1, Len(p)) = p

\* s.slice(n)
Slice(s, n) == SubSeq(s, n + 1, Len(s))

\* s.indexOf(sep) + 1 (0 when absent)
IndexOf(s, sep) ==
  LET hits == {i \in 1..(Len(s) - Len(sep) + 1) : SubSeq(s, i, i + Len(sep) - 1) = sep}
  IN IF hits = {} THEN 0 ELSE CHOOSE i \in hits : \A j \in hits : i <= j

\* s.split(sep), sep non-empty
RECURSIVE Split(_, _)
Split(s, sep) ==
  LET j == IndexOf(s, sep)
  IN IF j = 0 THEN <<s>>
     ELSE <<SubSeq(s, 1, j - 1)>> \o Split(SubSeq(s, j + Len(sep), Len(s)), sep)

\* lines.join(sep)
RECURSIVE Join(_, _)
Join(ls, sep) ==
  IF ls = <<>> THEN <<>>
  ELSE IF Len(ls) = 1 THEN ls[1]
  ELSE ls[1] \o sep \o Join(Tail(ls), sep)

\* s.trim()
RECURSIVE TrimLeft(_)
TrimLeft(s) ==
  IF s # <<>> /\ s[1] \in WhiteSpace THEN TrimLeft(Tail(s)) ELSE s

RECURSIVE TrimRight(_)
TrimRight(s) ==
  IF s # <<>> /\ s[Len(s)] \in WhiteSpace
  THEN TrimRight(SubSeq(s, 1, Len(s) - 1)) ELSE s

Trim(s) == TrimRight(TrimLeft(s))

\* s.replaceAll(pat, rep), pat non-empty: the occurrences of pat found
\* left to right without overlap are the separators of s.split(pat)
ReplaceAll(s, pat, rep) == Join(Split(s, pat), rep)

\* data.replace("\\n", "\n"): only the first occurrence
UnescapeFirst(data) ==
  LET j == IndexOf(data, EscNL)
  IN IF j = 0 THEN data
     ELSE SubSeq(data, 1, j - 1) \o <<NL>> \o SubSeq(data, j + 2, Len(data))

\* data.replaceAll("\\n", "\n")
Unescape(data) == ReplaceAll(data, EscNL, <<NL>>)

\* decoder.decode(value, {stream: true}): UTF-8 decoding that carries an
\* incomplete sequence (here: a lead byte) over to the next chunk.
\* pend is the carried lead byte or "".  A lead byte followed by its
\* continuation byte is one character; a lead byte followed by anything
\* else, and a continuation byte on its own, decode to U+FFFD.
DecodeAt(bs, i) ==
  IF bs[i] = LeadByte
  THEN IF i < Len(bs) /\ bs[i + 1] # ContByte THEN Replacement ELSE ""
  ELSE IF bs[i] = ContByte
  THEN IF i > 1 /\ bs[i - 1] = LeadByte THEN EAcute ELSE Replacement
  ELSE bs[i]

Decode(pend, bytes) ==
  LET bs == IF pend = "" THEN bytes ELSE <<pend>> \o bytes
      IsChar(c) == c # ""
  IN [out |-> SelectSeq([i \in 1..Len(bs) |-> DecodeAt(bs, i)], IsChar),
      pend |-> IF bs # <<>> /\ bs[Len(bs)] = LeadByte THEN LeadByte ELSE ""]

\* ------------------------------------------------------------------------
\* Segment parsing (the inner loop over the lines of one segment)
\* ------------------------------------------------------------------------
RECURSIVE ParseLines(_, _, _)
ParseLines(lines, evt, dataLines) ==
  IF lines = <<>> THEN [kind |-> evt, payload |-> Join(dataLines, <<NL>>)]
  ELSE LET line == Head(lines)
       IN IF StartsWith(line, S_event)
          THEN ParseLines(Tail(lines), Trim(Slice(line, 6)), dataLines)
          ELSE IF StartsWith(line, S_data)
          THEN ParseLines(Tail(lines), evt, Append(dataLines, Trim(Slice(line, 5))))
          ELSE ParseLines(Tail(lines), evt, dataLines)

\* let evt = "": a segment without an event: line has no kind
ParseSegmentNoDefault(chunk) == ParseLines(Split(chunk, <<NL>>), <<>>, <<>>)

ParseSegment(chunk) == ParseLines(Split(chunk, <<NL>>), S_message, <<>>)

\* the events of the completed segments of a buffer (every part but the last)
RECURSIVE ParseParts(_)
ParseParts(parts) ==
  IF Len(parts) <= 1 THEN <<>>
  ELSE <<ParseSegment(parts[1])>> \o ParseParts(Tail(parts))

\* buf = "": the trailing partial segment is dropped
PopNothing(parts) == <<>>

\* parts.pop() || ""
PopLast(parts) == parts[Len(parts)]

\* ------------------------------------------------------------------------
\* State
\* ------------------------------------------------------------------------
VARIABLES
  dialogId,      \* let dialogId
  controller,    \* let controller: 0 (null) or the call that created it
  aborted,       \* the controllers whose signal is aborted
  streaming,     \* let streaming
  status,        \* statusEl.textContent
  sendDisabled,  \* sendBtn.disabled
  stopDisabled,  \* stopBtn.disabled
  reasonBox,     \* reasonBox.textContent
  answerBox,     \* answerBox.textContent
  pc,            \* per startStream call: the await it is suspended at
  buf,           \* per call: let buf
  dec,           \* per call: the decoder's carried bytes
  wire,          \* per call: the chunks the response body has yet to deliver
  sent,          \* per call: the bytes delivered so far
  emitted,       \* per call: the events dispatched so far
  err,           \* per call: the error startStream rejected with
  reqDialog,     \* per call: the dialog_id of its /api/chat/stream request
  histTried,     \* per call: whether its cleanup called loadHistory
  ack,           \* per call: the init acknowledgement it received
  resp,          \* per call: the stream response it received
  idleStop,      \* a stopStream call made with no stream in flight is pending
  owner,         \* the calls that wrote to the sinks since the last clear
  startCalls,    \* startStream invocations so far
  stopCalls,     \* stopStream invocations so far
  stopPending,   \* stopStream calls awaiting the stop notification
  stopNote,      \* the latest stop notification: its dialog_id, and whether
                 \* the abort had been signalled when it was sent
  bootPc,        \* the DOMContentLoaded handler's position
  assigned       \* the dialog identifiers the backend has assigned so far

vars == <<dialogId, controller, aborted, streaming, status, sendDisabled,
          stopDisabled, reasonBox, answerBox, pc, buf,
          dec, wire, sent, emitted, err, reqDialog, histTried, ack, resp,
          idleStop, owner, startCalls, stopCalls, stopPending, stopNote,
          bootPc, assigned>>

ui_vars == <<streaming, status, sendDisabled, stopDisabled, reasonBox, answerBox>>
loop_vars == <<buf, dec, wire, sent, emitted>>
call_vars == <<pc, loop_vars, err, reqDialog, histTried, ack, resp>>
stop_vars == <<stopCalls, stopPending, idleStop, stopNote>>
session_vars == <<dialogId, assigned>>
Finished == {"idle", "returned", "threw"}

\* a falsy identifier: "", or the undefined of a missing dialog_id field,
\* which the code never tells apart
Missing == ""
NoRequest == "no request"
\* !dialogId
Falsy(d) == d = Missing

\* setStatus(t): the text and its interpolated argument
St(t, arg, data) == [t |-> t, arg |-> arg, data |-> data]
StReady(d) == St("ready", d, <<>>)
StConnecting == St("connecting", "", <<>>)
StRequestFailed(code) == St("request failed", code, <<>>)
StStreaming == St("streaming", "", <<>>)
StMeta == St("meta", "", <<>>)
StError(data) == St("error", "", data)
StDone == St("done", "", <<>>)
StInterrupted(e) == St("interrupted", e, <<>>)
StStopped == St("stopped", "", <<>>)
StInitFailed == St("init failed", "", <<>>)
StEmpty == St("", "", <<>>)

\* ------------------------------------------------------------------------
\* Output router: the if/else chain applied to one event
\* ------------------------------------------------------------------------
\* the router with an error event also ending the stream
RouteErrorEnds(ui, e) ==
  IF e.kind = S_meta THEN [ui EXCEPT !.status = StMeta]
  ELSE IF e.kind = S_reason
  THEN [ui EXCEPT !.reasonBox = @ \o Unescape(e.payload)]
  ELSE IF e.kind = S_answer
  THEN [ui EXCEPT !.answerBox = @ \o Unescape(e.payload)]
  ELSE IF e.kind \in {S_error, S_done}
  THEN [ui EXCEPT !.status = IF e.kind = S_done THEN StDone ELSE StError(e.payload),
                  !.streaming = FALSE,
                  !.sendDisabled = FALSE, !.stopDisabled = TRUE]
  ELSE ui

Route(ui, e) ==
  IF e.kind = S_meta THEN [ui EXCEPT !.status = StMeta]
  ELSE IF e.kind = S_reason
  THEN [ui EXCEPT !.reasonBox = @ \o Unescape(e.payload)]
  ELSE IF e.kind = S_answer
  THEN [ui EXCEPT !.answerBox = @ \o Unescape(e.payload)]
  ELSE IF e.kind = S_error THEN [ui EXCEPT !.status = StError(e.payload)]
  ELSE IF e.kind = S_done
  THEN [ui EXCEPT !.status = StDone, !.streaming = FALSE,
                  !.sendDisabled = FALSE, !.stopDisabled = TRUE]
  ELSE ui

\* the loop over the parts is left at a done event
RECURSIVE DispatchUntilDone(_, _)
DispatchUntilDone(ui, events) ==
  IF events = <<>> THEN ui
  ELSE IF Head(events).kind = S_done THEN Route(ui, Head(events))
  ELSE DispatchUntilDone(Route(ui, Head(events)), Tail(events))

\* for (const chunk of parts): the events in order
RECURSIVE Dispatch(_, _)
Dispatch(ui, events) ==
  IF events = <<>> THEN ui
  ELSE Dispatch(Route(ui, Head(events)), Tail(events))

Ui == [status |-> status, reasonBox |-> reasonBox, answerBox |-> answerBox,
       streaming |-> streaming, sendDisabled |-> sendDisabled,
       stopDisabled |-> stopDisabled]

SetUi(u) ==
  /\ status' = u.status
  /\ reasonBox' = u.reasonBox
  /\ answerBox' = u.answerBox
  /\ streaming' = u.streaming
  /\ sendDisabled' = u.sendDisabled
  /\ stopDisabled' = u.stopDisabled

\* ------------------------------------------------------------------------
\* What the backend may answer
\* ------------------------------------------------------------------------
\* POST /api/dialog/init: r.ok, js.ok, js.dialog_id, js.error.  A
\* successful acknowledgement carries a newly assigned identifier (the
\* backend's next one) or none.
InitResp(ok, jok, id, error) ==
  [ok |-> ok, jok |-> jok, dialog_id |-> id, error |-> error]

\* no acknowledgement received (yet)
NoAck == InitResp(FALSE, FALSE, "", "no response")

DialogIds == <<"d1", "d2", "d3", "d4", "d5", "d6">>
NewId == DialogIds[assigned + 1]

InitResponses ==
  { InitResp(TRUE, TRUE, NewId, ""),
    InitResp(TRUE, TRUE, Missing, ""),
    InitResp(TRUE, FALSE, Missing, "boom"),
    InitResp(FALSE, FALSE, Missing, "") }

\* POST /api/chat/stream: res.ok, res.status, whether res.body is non-null
StreamResp(ok, code, hasBody) == [ok |-> ok, status |-> code, hasBody |-> hasBody]

\* no response received (yet)
NoResp == StreamResp(FALSE, "", FALSE)

\* if (!res.ok): a response without a body passes
RequestFailedNoBodyCheck(res) == ~res.ok

\* if (!res.ok || !res.body)
RequestFailed(res) == ~res.ok \/ ~res.hasBody

StreamResponses ==
  { StreamResp(TRUE, "200", TRUE),
    StreamResp(FALSE, "500", TRUE),
    StreamResp(TRUE, "204", FALSE) }

\* POST /api/chat/stop with { runtime_id, dialog_id }: the dialog_id of the
\* body, and whether controller.abort() had run when it was sent.
\* (RUNTIME_ID is a constant of the page.)
StopNote(d, signalled) == [dialog_id |-> d, signalled |-> signalled]

\* no stop notification sent (yet)
NoNote == StopNote(NoRequest, FALSE)

\* the fetch resolves with a success status, resolves with an error status,
\* or rejects
StopOutcomes == {"ok", "failed", "rejected"}

SegReason == S_event \o <<" ">> \o S_reason \o <<NL>> \o S_data
             \o <<" ", "a", BSL, "n", BSL, "n", "b", NL, NL>>
SegAnswer == S_event \o S_answer \o <<NL>> \o S_data \o <<" ", LeadByte, ContByte, NL>>
             \o S_data \o <<"q", " ", NL, NL>>
SegDone == S_event \o <<" ">> \o S_done \o <<NL, NL>>
SegMeta == S_event \o <<" ">> \o S_meta \o <<NL, NL>>
SegError == S_event \o <<" ">> \o S_error \o <<NL>> \o S_data \o <<" ", "e", NL, NL>>
SegMessage == S_data \o <<" ", "m", NL, NL>>
SegPing == S_event \o <<" ", "p", "i", "n", "g", NL>> \o S_data \o <<" ", "p", NL, NL>>

\* response bodies as the chunks reader.read() yields
Bodies ==
  { <<SegReason \o SegDone \o SegAnswer>>,
    <<SegMeta \o SegError, SegMessage \o SegPing>> }

\* ------------------------------------------------------------------------
\* Initial state: the module's top-level declarations
\* ------------------------------------------------------------------------
Init ==
  /\ dialogId = ""
  /\ controller = 0
  /\ aborted = {}
  /\ streaming = FALSE
  /\ status = StEmpty
  /\ sendDisabled = FALSE
  /\ stopDisabled = FALSE
  /\ reasonBox = <<>>
  /\ answerBox = <<>>
  /\ pc = [k \in Starts |-> "idle"]
  /\ buf = [k \in Starts |-> <<>>]
  /\ dec = [k \in Starts |-> ""]
  /\ wire = [k \in Starts |-> <<>>]
  /\ sent = [k \in Starts |-> <<>>]
  /\ emitted = [k \in Starts |-> <<>>]
  /\ err = [k \in Starts |-> ""]
  /\ reqDialog = [k \in Starts |-> NoRequest]
  /\ histTried = [k \in Starts |-> FALSE]
  /\ ack = [k \in Starts |-> NoAck]
  /\ resp = [k \in Starts |-> NoResp]
  /\ idleStop = FALSE
  /\ owner = {}
  /\ startCalls = 0
  /\ stopCalls = 0
  /\ stopPending = 0
  /\ stopNote = NoNote
  /\ bootPc = "idle"
  /\ assigned = 0

\* ------------------------------------------------------------------------
\* initDialog
\* ------------------------------------------------------------------------
\* if (!r.ok && !js.ok) throw ...
InitThrowsBoth(r) == ~r.ok /\ ~r.jok

\* const js = await r.json(); if (!r.ok || !js.ok) throw ...
InitThrows(r) == ~r.ok \/ ~r.jok

\* new Error(js.error || "init failed")
InitError(r) == IF r.error # "" THEN r.error ELSE "init failed"

\* the backend has assigned one more identifier when the response carries one
Assign(r) == assigned' = IF Falsy(r.dialog_id) THEN assigned ELSE assigned + 1

\* ------------------------------------------------------------------------
\* startStream
\* ------------------------------------------------------------------------
\* the stop button is left as it was
BeginStreamKeepsStop(k, d) ==
  /\ reasonBox' = <<>>
  /\ answerBox' = <<>>
  /\ status' = StConnecting
  /\ sendDisabled' = TRUE
  /\ controller' = k
  /\ aborted' = aborted \ {k}
  /\ streaming' = TRUE
  /\ stopDisabled' = stopDisabled
  /\ owner' = {}
  /\ reqDialog' = [reqDialog EXCEPT ![k] = d]
  /\ pc' = [pc EXCEPT ![k] = "fetch"]

\* lines 102-122: from clearBox to the issued fetch, with dialogId = d
BeginStream(k, d) ==
  /\ reasonBox' = <<>>
  /\ answerBox' = <<>>
  /\ status' = StConnecting
  /\ sendDisabled' = TRUE
  /\ controller' = k
  /\ aborted' = aborted \ {k}
  /\ streaming' = TRUE
  /\ stopDisabled' = FALSE
  /\ owner' = {}
  /\ reqDialog' = [reqDialog EXCEPT ![k] = d]
  /\ pc' = [pc EXCEPT ![k] = "fetch"]

\* startStream(userText) is called from a click or keydown handler (the
\* handlers are registered when the DOMContentLoaded handler is through):
\* a new activation, which runs to its first await
Start(k) ==
  /\ bootPc = "done"
  /\ startCalls < MaxStarts
  /\ pc[k] \in Finished
  /\ \A j \in Starts : j < k => pc[j] \notin Finished
  /\ startCalls' = startCalls + 1
  /\ idleStop' = FALSE
  /\ err' = [err EXCEPT ![k] = ""]
  /\ histTried' = [histTried EXCEPT ![k] = FALSE]
  /\ ack' = [ack EXCEPT ![k] = NoAck]
  /\ resp' = [resp EXCEPT ![k] = NoResp]
  /\ IF Falsy(dialogId)
     THEN /\ pc' = [pc EXCEPT ![k] = "loadCards"]
          /\ reqDialog' = [reqDialog EXCEPT ![k] = NoRequest]
          /\ UNCHANGED <<controller, aborted, ui_vars, owner>>
     ELSE BeginStream(k, dialogId)
  /\ UNCHANGED <<session_vars, loop_vars, stopCalls, stopPending, stopNote,
                 bootPc>>

\* await loadCards() inside initDialog resolves; the init request is sent
StartLoadCards(k) ==
  /\ pc[k] = "loadCards"
  /\ pc' = [pc EXCEPT ![k] = "init"]
  /\ UNCHANGED <<session_vars, controller, aborted, owner, ui_vars, loop_vars,
                 err, reqDialog, histTried, ack, resp, stop_vars, bootPc,
                 startCalls>>

\* the init fetch rejects (network failure): startStream rejects
StartInitReject(k) ==
  /\ pc[k] = "init"
  /\ pc' = [pc EXCEPT ![k] = "threw"]
  /\ err' = [err EXCEPT ![k] = "TypeError"]
  /\ UNCHANGED <<session_vars, controller, aborted, owner, ui_vars, loop_vars,
                 reqDialog, histTried, ack, resp, stop_vars, bootPc,
                 startCalls>>

\* the init response and its JSON body arrive; on success startStream
\* resumes in the same turn of the event loop
StartInitDone(k) ==
  /\ pc[k] = "init"
  /\ \E r \in InitResponses :
       /\ Assign(r)
       /\ ack' = [ack EXCEPT ![k] = r]
       /\ IF InitThrows(r)
          THEN /\ pc' = [pc EXCEPT ![k] = "threw"]
               /\ err' = [err EXCEPT ![k] = InitError(r)]
               /\ UNCHANGED <<dialogId, controller, aborted, ui_vars, owner,
                              reqDialog>>
          ELSE /\ dialogId' = r.dialog_id
               /\ BeginStream(k, r.dialog_id)
               /\ UNCHANGED err
  /\ UNCHANGED <<loop_vars, histTried, resp, stop_vars, bootPc, startCalls>>

\* String(e) of the rejection of a fetch or read on call k's signal
TransportError(k) == IF k \in aborted THEN "AbortError" ELSE "TypeError"

\* await fetch("/api/chat/stream") rejects (network failure or abort):
\* the await is outside the try, so startStream rejects
FetchReject(k) ==
  /\ pc[k] = "fetch"
  /\ pc' = [pc EXCEPT ![k] = "threw"]
  /\ err' = [err EXCEPT ![k] = TransportError(k)]
  /\ UNCHANGED <<session_vars, controller, aborted, owner, ui_vars, loop_vars,
                 reqDialog, histTried, ack, resp, stop_vars, bootPc,
                 startCalls>>

\* await fetch("/api/chat/stream") resolves with a response
FetchDone(k) ==
  /\ pc[k] = "fetch"
  /\ k \notin aborted
  /\ \E res \in StreamResponses :
       /\ resp' = [resp EXCEPT ![k] = res]
       /\ IF RequestFailed(res)
          THEN /\ status' = StRequestFailed(res.status)
               /\ streaming' = FALSE
               /\ sendDisabled' = FALSE
               /\ stopDisabled' = TRUE
               /\ pc' = [pc EXCEPT ![k] = "returned"]
               /\ UNCHANGED <<buf, dec, wire>>
          ELSE /\ status' = StStreaming
               /\ buf' = [buf EXCEPT ![k] = <<>>]
               /\ dec' = [dec EXCEPT ![k] = ""]
               /\ \E b \in Bodies : wire' = [wire EXCEPT ![k] = b]
               /\ pc' = [pc EXCEPT ![k] = "read"]
               /\ UNCHANGED <<streaming, sendDisabled, stopDisabled>>
  /\ UNCHANGED <<session_vars, controller, aborted, owner, reasonBox,
                 answerBox, sent, emitted, err, reqDialog, histTried, ack,
                 stop_vars, bootPc, startCalls>>

\* whether one of the events appends to a sink
RECURSIVE WritesSink(_)
WritesSink(events) ==
  /\ events # <<>>
  /\ \/ Head(events).kind \in {S_reason, S_answer}
     \/ WritesSink(Tail(events))

\* the events one loop iteration dispatches when value arrives
ChunkText(k, value) == buf[k] \o Decode(dec[k], value).out
ChunkParts(k, value) == Split(ChunkText(k, value), Sep2)
ChunkEvents(k, value) == ParseParts(ChunkParts(k, value))

\* await reader.read() yields a chunk: one iteration of the loop body
ReadChunk(k) ==
  /\ pc[k] = "read"
  /\ k \notin aborted
  /\ wire[k] # <<>>
  /\ LET value == Head(wire[k])
         events == ChunkEvents(k, value)
     IN /\ dec' = [dec EXCEPT ![k] = Decode(dec[k], value).pend]
        /\ buf' = [buf EXCEPT ![k] = PopLast(ChunkParts(k, value))]
        /\ SetUi(Dispatch(Ui, events))
        /\ emitted' = [emitted EXCEPT ![k] = @ \o events]
        /\ owner' = IF WritesSink(events) THEN owner \cup {k} ELSE owner
        /\ sent' = [sent EXCEPT ![k] = @ \o value]
  /\ wire' = [wire EXCEPT ![k] = Tail(@)]
  /\ UNCHANGED <<session_vars, controller, aborted, pc, err, reqDialog,
                 histTried, ack, resp, stop_vars, bootPc, startCalls>>

\* the loop is left: its locals are dead from here on
LeaveLoop(k) ==
  /\ buf' = [buf EXCEPT ![k] = <<>>]
  /\ dec' = [dec EXCEPT ![k] = ""]
  /\ wire' = [wire EXCEPT ![k] = <<>>]
  /\ sent' = [sent EXCEPT ![k] = <<>>]
  /\ emitted' = [emitted EXCEPT ![k] = <<>>]

\* await reader.read() yields done: break, then finally calls loadHistory
ReadEnd(k) ==
  /\ pc[k] = "read"
  /\ wire[k] = <<>>
  /\ pc' = [pc EXCEPT ![k] = "history"]
  /\ histTried' = [histTried EXCEPT ![k] = TRUE]
  /\ LeaveLoop(k)
  /\ UNCHANGED <<session_vars, controller, aborted, owner, ui_vars,
                 err, reqDialog, ack, resp, stop_vars, bootPc, startCalls>>

\* await reader.read() rejects: catch, then finally calls loadHistory
ReadError(k) ==
  /\ pc[k] = "read"
  /\ status' = IF streaming THEN StInterrupted(TransportError(k)) ELSE status
  /\ pc' = [pc EXCEPT ![k] = "history"]
  /\ histTried' = [histTried EXCEPT ![k] = TRUE]
  /\ LeaveLoop(k)
  /\ UNCHANGED <<session_vars, controller, aborted, owner, streaming,
                 sendDisabled, stopDisabled, reasonBox, answerBox,
                 err, reqDialog, ack, resp, stop_vars, bootPc, startCalls>>

\* the cleanup also empties the sinks
HistoryDoneClears(k) ==
  /\ pc[k] = "history"
  /\ streaming' = FALSE
  /\ sendDisabled' = FALSE
  /\ stopDisabled' = TRUE
  /\ reasonBox' = <<>>
  /\ answerBox' = <<>>
  /\ pc' = [pc EXCEPT ![k] = "returned"]
  /\ UNCHANGED <<session_vars, controller, aborted, owner, status,
                 loop_vars, err, reqDialog, histTried, ack, resp,
                 stop_vars, bootPc, startCalls>>

\* await loadHistory() in finally settles (its failure is swallowed); the
\* rest of finally runs
HistoryDone(k) ==
  /\ pc[k] = "history"
  /\ streaming' = FALSE
  /\ sendDisabled' = FALSE
  /\ stopDisabled' = TRUE
  /\ pc' = [pc EXCEPT ![k] = "returned"]
  /\ UNCHANGED <<session_vars, controller, aborted, owner, status, reasonBox,
                 answerBox, loop_vars, err, reqDialog, histTried, ack, resp,
                 stop_vars, bootPc, startCalls>>

\* the transport delivers the rest of the body in two pieces
Reslice(k) ==
  /\ pc[k] = "read"
  /\ Len(wire[k]) = 1
  /\ \E n \in 1..(Len(Head(wire[k])) - 1) :
       wire' = [wire EXCEPT ![k] =
                  <<SubSeq(Head(@), 1, n), SubSeq(Head(@), n + 1, Len(Head(@)))>>]
  /\ UNCHANGED <<session_vars, controller, aborted, owner, ui_vars, pc, buf,
                 dec, sent, emitted, err, reqDialog, histTried, ack, resp,
                 stop_vars, bootPc, startCalls>>

\* ------------------------------------------------------------------------
\* stopStream
\* ------------------------------------------------------------------------
\* stopStream() is called from the stop button's click handler: abort, then
\* the stop notification is sent
Stop ==
  /\ bootPc = "done"
  /\ stopCalls < MaxStops
  /\ aborted' = IF controller # 0 THEN aborted \cup {controller} ELSE aborted
  /\ stopNote' = StopNote(dialogId, controller = 0 \/ controller \in aborted')
  /\ stopCalls' = stopCalls + 1
  /\ stopPending' = stopPending + 1
  /\ idleStop' = /\ \A k \in Starts : pc[k] \in Finished
                 /\ stopPending = 0 \/ idleStop
  /\ UNCHANGED <<session_vars, controller, owner, ui_vars, call_vars, bootPc,
                 startCalls>>

\* the catch around the stop notification is missing: a rejection ends
\* stopStream before the lines after it
StopSettledUncaught(o) ==
  IF o = "rejected"
  THEN UNCHANGED <<streaming, status, sendDisabled, stopDisabled>>
  ELSE /\ streaming' = FALSE
       /\ status' = StStopped
       /\ sendDisabled' = FALSE
       /\ stopDisabled' = TRUE

\* lines 85-95: the try/catch around the awaited notification swallows a
\* rejection, a failure status is never looked at, and the rest runs
StopSettled(o) ==
  /\ streaming' = FALSE
  /\ status' = StStopped
  /\ sendDisabled' = FALSE
  /\ stopDisabled' = TRUE

\* the stop notification of one pending stopStream call settles
StopDone ==
  /\ stopPending > 0
  /\ stopPending' = stopPending - 1
  /\ idleStop' = (idleStop /\ stopPending > 1)
  /\ \E o \in StopOutcomes : StopSettled(o)
  /\ UNCHANGED <<session_vars, controller, aborted, owner, reasonBox,
                 answerBox, call_vars, stopCalls, stopNote, bootPc,
                 startCalls>>

\* ------------------------------------------------------------------------
\* DOMContentLoaded handler
\* ------------------------------------------------------------------------
\* the handler is called: initDialog runs to await loadCards()
BootStart ==
  /\ bootPc = "idle"
  /\ bootPc' = "loadCards"
  /\ UNCHANGED <<session_vars, controller, aborted, owner, ui_vars, call_vars,
                 stop_vars, startCalls>>

BootLoadCards ==
  /\ bootPc = "loadCards"
  /\ bootPc' = "init"
  /\ UNCHANGED <<session_vars, controller, aborted, owner, ui_vars, call_vars,
                 stop_vars, startCalls>>

\* the init fetch rejects: catch
BootInitReject ==
  /\ bootPc = "init"
  /\ status' = StInitFailed
  /\ bootPc' = "done"
  /\ UNCHANGED <<session_vars, controller, aborted, owner, streaming,
                 sendDisabled, stopDisabled, reasonBox, answerBox, call_vars,
                 stop_vars, startCalls>>

\* the init response arrives: loadHistory is called, or catch
BootInitDone ==
  /\ bootPc = "init"
  /\ \E r \in InitResponses :
       /\ Assign(r)
       /\ IF InitThrows(r)
          THEN /\ status' = StInitFailed
               /\ bootPc' = "done"
               /\ UNCHANGED dialogId
          ELSE /\ dialogId' = r.dialog_id
               /\ status' = StReady(r.dialog_id)
               /\ bootPc' = "history"
  /\ UNCHANGED <<controller, aborted, owner, streaming, sendDisabled,
                 stopDisabled, reasonBox, answerBox, call_vars, stop_vars,
                 startCalls>>

\* await loadHistory() settles; the handlers are registered
BootHistoryDone ==
  /\ bootPc = "history"
  /\ bootPc' = "done"
  /\ UNCHANGED <<session_vars, controller, aborted, owner, ui_vars, call_vars,
                 stop_vars, startCalls>>

\* ------------------------------------------------------------------------
\* Specifications
\* ------------------------------------------------------------------------
Next ==
  \/ \E k \in Starts : Start(k)
  \/ \E k \in Starts : StartLoadCards(k)
  \/ \E k \in Starts : StartInitReject(k)
  \/ \E k \in Starts : StartInitDone(k)
  \/ \E k \in Starts : FetchReject(k)
  \/ \E k \in Starts : FetchDone(k)
  \/ \E k \in Starts : ReadChunk(k)
  \/ \E k \in Starts : ReadEnd(k)
  \/ \E k \in Starts : ReadError(k)
  \/ \E k \in Starts : HistoryDone(k)
  \/ Stop
  \/ StopDone
  \/ BootStart
  \/ BootLoadCards
  \/ BootInitReject
  \/ BootInitDone
  \/ BootHistoryDone

Spec == Init /\ [][Next]_vars

\* ------------------------------------------------------------------------
\* The read loop on its own: one stream whose body is any concatenation of
\* well-framed segments, delivered in any slicing
\* ------------------------------------------------------------------------
Segments == {SegReason, SegAnswer, SegDone, SegMessage}

\* the concatenations of n segments
RECURSIVE WellFramed(_)
WellFramed(n) ==
  IF n = 0 THEN {<<>>}
  ELSE {s \o t : s \in Segments, t \in WellFramed(n - 1)}

WellFramedBodies == UNION {WellFramed(n) : n \in 1..MaxSegs}

\* the state in which call 1, started with the session "d1" in place, has
\* received a readable response and awaits its first read
InitParse ==
  /\ dialogId = "d1"
  /\ controller = 1
  /\ aborted = {}
  /\ streaming = TRUE
  /\ status = StStreaming
  /\ sendDisabled = TRUE
  /\ stopDisabled = FALSE
  /\ reasonBox = <<>>
  /\ answerBox = <<>>
  /\ pc = [k \in Starts |-> IF k = 1 THEN "read" ELSE "idle"]
  /\ buf = [k \in Starts |-> <<>>]
  /\ dec = [k \in Starts |-> ""]
  /\ \E b \in WellFramedBodies : wire = [k \in Starts |-> IF k = 1 THEN <<b>> ELSE <<>>]
  /\ sent = [k \in Starts |-> <<>>]
  /\ emitted = [k \in Starts |-> <<>>]
  /\ err = [k \in Starts |-> ""]
  /\ reqDialog = [k \in Starts |-> IF k = 1 THEN "d1" ELSE NoRequest]
  /\ histTried = [k \in Starts |-> FALSE]
  /\ ack = [k \in Starts |-> NoAck]
  /\ resp = [k \in Starts |-> NoResp]
  /\ idleStop = FALSE
  /\ owner = {}
  /\ startCalls = 1
  /\ stopCalls = 0
  /\ stopPending = 0
  /\ stopNote = NoNote
  /\ bootPc = "done"
  /\ assigned = 1

NextParse ==
  \/ \E k \in Starts : Reslice(k)
  \/ \E k \in Starts : ReadChunk(k)
  \/ \E k \in Starts : ReadEnd(k)
  \/ \E k \in Starts : HistoryDone(k)

SpecParse == InitParse /\ [][NextParse]_vars

\* ------------------------------------------------------------------------
\* Properties
\* ------------------------------------------------------------------------
\* activation k has issued its stream request and has not ended
InFlight(k) == pc[k] \in {"fetch", "read"}

\* C1: at most one stream is active at any instant: a stream still in
\* flight when a newer startStream has created its controller (and cleared
\* the sinks) has been cancelled, and the appends to the sinks since the
\* last clear never come from two streams.
C1_OneActiveStream ==
  /\ \A j \in Starts : (InFlight(j) /\ controller # j) => j \in aborted
  /\ Cardinality(owner) <= 1

\* C3: every startStream call that got past initialization ends with the
\* full cleanup: the step in which it returns or rejects leaves the active
\* flag false, send enabled, stop disabled, and a history refresh attempted.
C3_CleanupOnEveryPath ==
  [][\A k \in Starts :
       (pc[k] \in {"fetch", "read", "history"} /\ pc'[k] \in {"returned", "threw"})
       => (~streaming' /\ ~sendDisabled' /\ stopDisabled' /\ histTried'[k])]_vars

\* C4: a stopStream call made when no stream is active is a no-op: when it
\* completes, the dialog identifier, the active flag, both sinks, the status
\* indicator and the affordances are as they were.
C4_IdleStopIsNoOp ==
  [][(idleStop /\ stopPending' < stopPending)
     => UNCHANGED <<dialogId, streaming, reasonBox, answerBox, status,
                    sendDisabled, stopDisabled>>]_vars

\* the handshake was answered and rejected: non-success status or ok = false
Rejected(a) == a # NoAck /\ (a.ok = FALSE \/ a.jok = FALSE)

\* C5: when the initialization handshake of a startStream call is rejected,
\* the call fails with an error carrying the backend's error message, it
\* never issues a stream request, and the step leaves the sinks, the active
\* flag and the dialog identifier unchanged.
C5_RejectedInitFailsStart ==
  /\ [](\A k \in Starts :
          Rejected(ack[k])
          => /\ pc[k] = "threw"
             /\ reqDialog[k] = NoRequest
             /\ ack[k].error # "" => err[k] = ack[k].error)
  /\ [][\A k \in Starts :
          (pc[k] = "init" /\ Rejected(ack'[k]))
          => UNCHANGED <<reasonBox, answerBox, streaming, dialogId>>]_vars

C5_Witness ==
  \E k \in Starts :
    /\ pc[k] = "threw"
    /\ ack[k].error = "boom"
    /\ err[k] = "boom"
    /\ reqDialog[k] = NoRequest

\* C6: a stream response with a non-success status or without a readable
\* body sends startStream straight to its failed return: the status shows
\* the status code, the active flag is false, no chunk is read or parsed and
\* nothing is appended to a sink.
C6_FailedResponse ==
  [][\A k \in Starts :
       (pc[k] = "fetch" /\ resp'[k] # NoResp
          /\ (resp'[k].ok = FALSE \/ resp'[k].hasBody = FALSE))
       => /\ pc'[k] = "returned"
          /\ status' = StRequestFailed(resp'[k].status)
          /\ ~streaming'
          /\ sent'[k] = <<>> /\ emitted'[k] = <<>> /\ wire'[k] = <<>>
          /\ UNCHANGED <<reasonBox, answerBox>>]_vars

C6_Witness ==
  \E k \in Starts :
    /\ pc[k] = "returned"
    /\ resp[k] = StreamResp(FALSE, "500", TRUE)
    /\ status = StRequestFailed("500")
    /\ ~streaming

\* the events of a byte stream delivered as one chunk
OneChunkEvents(bytes) == ParseParts(Split(Decode("", bytes).out, Sep2))

WellFramedOf == [n \in 0..MaxSegs |-> WellFramed(n)]

\* C2: however the body is sliced into chunks, the events emitted so far
\* are those of the delivered bytes taken as one chunk (same order, kind and
\* payload), and once a body of N well-framed segments is delivered in full
\* exactly N events have been emitted.
C2_SlicingInvariant ==
  \A k \in Starts :
    pc[k] = "read"
    => /\ emitted[k] = OneChunkEvents(sent[k])
       /\ \A n \in 0..MaxSegs :
            (wire[k] = <<>> /\ sent[k] \in WellFramedOf[n]) => Len(emitted[k]) = n

\* a chunk boundary fell inside a blank-line separator, after an event
C2_Witness ==
  \E k \in Starts :
    /\ pc[k] = "read"
    /\ wire[k] # <<>>
    /\ Len(emitted[k]) >= 1
    /\ buf[k] # <<>>
    /\ buf[k][Len(buf[k])] = NL

\* a payload with every escaped newline (backslash, n) made a newline,
\* scanning left to right
RECURSIVE LiteralNewlines(_)
LiteralNewlines(p) ==
  IF p = <<>> THEN <<>>
  ELSE IF Len(p) >= 2 /\ p[1] = BSL /\ p[2] = "n"
  THEN <<NL>> \o LiteralNewlines(SubSeq(p, 3, Len(p)))
  ELSE <<p[1]>> \o LiteralNewlines(Tail(p))

\* the text the events of one kind add up to, in order
RECURSIVE SinkText(_, _)
SinkText(events, kind) ==
  IF events = <<>> THEN <<>>
  ELSE (IF Head(events).kind = kind THEN LiteralNewlines(Head(events).payload)
        ELSE <<>>) \o SinkText(Tail(events), kind)

NewEvents(k) == SubSeq(emitted'[k], Len(emitted[k]) + 1, Len(emitted'[k]))
KindsOf(events) == {events[i].kind : i \in 1..Len(events)}

\* C8: a loop iteration whose events are all of kinds other than reason,
\* answer and done changes no sink, flag or affordance and does not end the
\* loop; its status is that of its last meta or error event, and is
\* unchanged when it has none.
C8_OtherKindsAreInert ==
  [][\A k \in Starts :
       (pc[k] = "read" /\ Len(sent'[k]) > Len(sent[k])
          /\ KindsOf(NewEvents(k)) \cap {S_reason, S_answer, S_done} = {})
       => /\ UNCHANGED <<reasonBox, answerBox, streaming, sendDisabled, stopDisabled>>
          /\ pc'[k] = "read"
          /\ status' \in {status, StMeta}
                           \cup {StError(e.payload) : e \in
                                   {NewEvents(k)[i] : i \in 1..Len(NewEvents(k))}}
          /\ KindsOf(NewEvents(k)) \cap {S_meta, S_error} = {} => status' = status]_vars

\* a stream has dispatched a meta, an error, a default-kind and an
\* unknown-kind event and is still reading, the flags untouched
C8_Witness ==
  \E k \in Starts :
    /\ pc[k] = "read"
    /\ {S_meta, S_error, S_message} \subseteq KindsOf(emitted[k])
    /\ Len(emitted[k]) = 4
    /\ status = StError(<<"e">>)
    /\ streaming /\ sendDisabled /\ ~stopDisabled

\* C9: the dialog identifier is assigned exactly once: once it holds a
\* non-empty value, no step changes it.
C9_DialogIdAssignedOnce ==
  [][~Falsy(dialogId) => dialogId' = dialogId]_vars

\* C10: every stream request carries a non-empty dialog identifier.
C10_StreamRequestHasDialogId ==
  \A k \in Starts : reqDialog[k] # NoRequest => ~Falsy(reqDialog[k])

\* activation k issues its stream request in this step
Issues(k) == pc[k] # "fetch" /\ pc'[k] = "fetch"

\* C11: each sink is cleared in the step in which a startStream call that
\* passed initialization issues its stream request, and by nothing else:
\* every other step leaves both sinks unchanged or appends to them the
\* payloads of the reason/answer events it dispatched (a done or an error
\* event adds nothing), and the steps of stopStream and of the
\* end-of-stream cleanup leave them unchanged.
C11_SinksClearedOncePerStart ==
  [][/\ \A k \in Starts : Issues(k) => (reasonBox' = <<>> /\ answerBox' = <<>>)
     /\ (\A k \in Starts : ~Issues(k))
        => /\ \E k \in Starts :
                /\ reasonBox' = reasonBox \o SinkText(NewEvents(k), S_reason)
                /\ answerBox' = answerBox \o SinkText(NewEvents(k), S_answer)
           /\ (stopCalls' # stopCalls \/ stopPending' # stopPending
               \/ \E k \in Starts : pc[k] \in {"read", "history"} /\ pc'[k] # pc[k])
              => UNCHANGED <<reasonBox, answerBox>>]_vars

\* a stream that filled both sinks and received done has been through its
\* cleanup while a stopStream call completed: the sinks still hold the text
C11_Witness ==
  \E k \in Starts :
    /\ pc[k] = "returned"
    /\ histTried[k]
    /\ stopCalls > 0 /\ stopPending = 0
    /\ reasonBox = <<"a", NL, NL, "b">>
    /\ answerBox = <<EAcute, NL, "q">>

\* C12: a transport failure of a stream that was not cancelled (the stream
\* request rejecting, or a read rejecting while the body has more to
\* deliver) and a rejected initialization inside startStream each leave the
\* status indicator at a text that describes a failure, not at the
\* connecting or streaming text.
C12_FailuresSurfaced ==
  [][\A k \in Starts :
       (\/ pc[k] = "init" /\ pc'[k] = "threw"
        \/ pc[k] = "fetch" /\ pc'[k] = "threw" /\ k \notin aborted
        \/ pc[k] = "read" /\ pc'[k] = "history" /\ wire[k] # <<>> /\ k \notin aborted)
       => status'.t \in {"interrupted", "init failed", "request failed"}]_vars

\* C13: stopStream on an active stream has signalled the abort when it sends
\* the stop notification, which carries the dialog identifier; and however
\* the notification settles, the step that completes stopStream leaves the
\* active flag false, send enabled and stop disabled.
C13_StopAbortsThenNotifies ==
  [][/\ (stopCalls' > stopCalls /\ \E k \in Starts : InFlight(k) /\ controller = k)
        => /\ controller \in aborted'
           /\ stopPending' = stopPending + 1
           /\ stopNote'.dialog_id = dialogId
           /\ stopNote'.signalled
     /\ stopPending' < stopPending
        => ~streaming' /\ ~sendDisabled' /\ stopDisabled']_vars

\* a stopStream call made on a stream in its read loop has completed
C13_Witness ==
  /\ stopCalls > 0 /\ stopPending = 0
  /\ \E k \in Starts : pc[k] = "read" /\ controller = k /\ k \in aborted
  /\ ~Falsy(dialogId) /\ stopNote = StopNote(dialogId, TRUE)
  /\ status = StStopped
  /\ ~streaming /\ ~sendDisabled /\ stopDisabled

\* C14: a loop iteration that dispatches a done event leaves the status at
\* complete (no meta or error event in the same chunk), the active flag
\* false and send enabled, and the stream stays in its read loop; in that
\* iteration and in every later one the reason/answer events are appended
\* to their sinks, those after the done event included.
C14_DoneDoesNotEndLoop ==
  [][\A k \in Starts :
       (pc[k] = "read" /\ Len(sent'[k]) > Len(sent[k])
          /\ S_done \in KindsOf(emitted'[k]))
       => /\ pc'[k] = "read"
          /\ reasonBox' = reasonBox \o SinkText(NewEvents(k), S_reason)
          /\ answerBox' = answerBox \o SinkText(NewEvents(k), S_answer)
          /\ S_done \in KindsOf(NewEvents(k))
             => /\ ~streaming' /\ ~sendDisabled'
                /\ KindsOf(NewEvents(k)) \cap {S_meta, S_error} = {}
                   => status' = StDone]_vars

\* an answer event that arrived after the done event is in its sink, the
\* stream still reading
C14_Witness ==
  \E k \in Starts :
    /\ pc[k] = "read"
    /\ Len(emitted[k]) = 2
    /\ emitted[k][1].kind = S_done
    /\ emitted[k][2].kind = S_answer
    /\ answerBox = <<EAcute, NL, "q">>
    /\ status = StDone /\ ~streaming /\ ~sendDisabled

\* C15: a stream whose cleanup has run is in the Completed state whether or
\* not its body carried a done event: active flag false, send enabled, stop
\* disabled, status complete.
C15_EndOfBodyIsCompleted ==
  \A k \in Starts :
    pc[k] = "returned"
    => ~streaming /\ ~sendDisabled /\ stopDisabled /\ status = StDone

\* the segments of the framed bodies as written: the value of the event:
\* line (message when there is none) and the data: lines joined by newlines
Event(kind, payload) == [kind |-> kind, payload |-> payload]

Written ==
  { [seg |-> SegReason, event |-> Event(S_reason, <<"a", BSL, "n", BSL, "n", "b">>)],
    [seg |-> SegAnswer, event |-> Event(S_answer, <<EAcute, NL, "q">>)],
    [seg |-> SegDone, event |-> Event(S_done, <<>>)],
    [seg |-> SegMessage, event |-> Event(S_message, <<"m">>)] }

\* the events of the complete segments at the front of the bytes
RECURSIVE Expect(_)
Expect(bytes) ==
  LET front == {w \in Written : StartsWith(bytes, w.seg)}
  IN IF front = {} THEN <<>>
     ELSE LET w == CHOOSE w \in front : TRUE
          IN <<w.event>> \o Expect(Slice(bytes, Len(w.seg)))

\* C16: while a stream reads, each completed segment delivered so far has
\* yielded exactly one event, of the kind of its event: line (message when
\* it has none) and with its data: lines joined by newlines as payload
\* (empty when it has none), in order.
C16_SegmentToEvent ==
  \A k \in Starts :
    pc[k] = "read" => emitted[k] = Expect(sent[k])

\* a segment without an event: line and one without a data: line have been
\* dispatched
C16_Witness ==
  \E k \in Starts :
    /\ pc[k] = "read"
    /\ wire[k] = <<>>
    /\ emitted[k] = <<Event(S_message, <<"m">>), Event(S_done, <<>>)>>

\* C17: while a stream that stopStream cancelled is in its read loop or in
\* its cleanup, the status indicator does not show the
\* connection-interrupted text.
C17_CancelNotAnError ==
  \A k \in Starts :
    (k \in aborted /\ pc[k] \in {"read", "history"})
    => status # StInterrupted("AbortError")

\* C18: while the newest stream is in flight and has neither received done
\* nor been cancelled, the active flag is true and stop is enabled.
C18_NewerStreamStaysActive ==
  \A k \in Starts :
    (InFlight(k) /\ controller = k /\ k \notin aborted
       /\ S_done \notin KindsOf(emitted[k]))
    => streaming /\ ~stopDisabled

\* C19: when stopStream has been invoked since the last clear of the sinks
\* (the current controller's signal is aborted) and has completed, no step
\* changes a sink until a startStream call clears them.
C19_NoAppendAfterStop ==
  [][(controller # 0 /\ controller \in aborted /\ stopCalls > 0 /\ stopPending = 0)
     => (UNCHANGED <<reasonBox, answerBox>> \/ \E k \in Starts : Issues(k))]_vars

\* C20: once a startStream call has passed initialization (it created the
\* controller), send is disabled exactly when the active flag is true and
\* stop is enabled exactly when the active flag is true.
C20_AffordancesFollowFlag ==
  controller # 0
  => /\ sendDisabled <=> streaming
     /\ stopDisabled <=> ~streaming

\* a stream is in its read loop while the flag is false and the affordances
\* say so, and another call is past its cleanup
C20_Witness ==
  /\ controller # 0
  /\ \E k \in Starts : pc[k] = "read"
  /\ \E k \in Starts : pc[k] = "returned" /\ histTried[k]
  /\ ~streaming /\ ~sendDisabled /\ stopDisabled
====
